---- MODULE Spec2Model ----
(***************************************************************************)
(* A model of the numerical core of iris-ued (src/core.py): the radial     *)
(* averaging of a diffraction image, the RadialCurve container with its    *)
(* subtraction and cutoff, and the search of the pattern center.           *)
(*                                                                         *)
(* numpy arrays are modelled as sequences held in a heap of buffers, so    *)
(* that a view or a shared reference is told from a copy.  Floating point  *)
(* numbers are modelled as exact rationals <<numerator, denominator>>.     *)
(***************************************************************************)
EXTENDS Integers, Sequences, FiniteSets, TLC

VARIABLES
    image,      \* radialAverage: the image argument, a sequence of rows
    center,     \* radialAverage: the center argument [xc, yc]
    radial,     \* radialAverage: the returned RadialCurve, or None
    heap,       \* storage of the numpy arrays of the curves: buffer -> values
    a,          \* the left operand curve (self)
    b,          \* the right operand curve (pattern)
    res,        \* the curve returned by the last curve operation, or None
    call,       \* the last curve operation called: arguments and returned curve
    writes,     \* the number of in-place writes made to the arrays of the curves
    im,         \* circ / fCenter: the image argument
    fc,         \* fCenter: the guess, the scale factor, the optimizer's progress
    ui,         \* the UEDpowder window and its ImageViewer, or None
    ctl         \* the IrisController and its WorkThread, or None

vars == <<image, center, radial, heap, a, b, res, call, writes, im, fc, ui, ctl>>

None == [none |-> TRUE]

-----------------------------------------------------------------------------
(* Bounds of the model *)

ImgSize == 2        \* radialAverage is run on ImgSize x ImgSize images
MaxVal == 2         \* an intensity is dark (0) or bright (MaxVal)
MaxLen == 2         \* operand curves have 1..MaxLen samples
MaxX == 2           \* the abscissas of the operand curves are drawn from 0..MaxX
MaxWrites == 1      \* in-place writes a consumer makes to the arrays of the curves
TailRows == 3           \* circ is run on images of RowCutoff + TailRows rows and columns
MaxProbes == 1      \* metric evaluations of the optimizer after the starting point
MaxEvents == 8      \* events handled by the UEDpowder window
MaxCalls == 4       \* slots of the IrisController invoked by the views

-----------------------------------------------------------------------------
(* Exact rational arithmetic, for the float results of the code *)

Abs(v) == IF v < 0 THEN -v ELSE v

RECURSIVE GCD(_, _)
GCD(m, k) == IF k = 0 THEN m ELSE GCD(k, m % k)

\* the rational nn/dd in lowest terms with a positive denominator
Rat(nn, dd) ==
    LET g == GCD(Abs(nn), Abs(dd))
        s == IF dd < 0 THEN -1 ELSE 1
    IN  <<(s * nn) \div g, (s * dd) \div g>>

RInt(v) == <<v, 1>>
RAdd(p, q) == Rat(p[1] * q[2] + q[1] * p[2], p[2] * q[2])
RSub(p, q) == Rat(p[1] * q[2] - q[1] * p[2], p[2] * q[2])
RMul(p, q) == Rat(p[1] * q[1], p[2] * q[2])
RDiv(p, q) == Rat(p[1] * q[2], p[2] * q[1])
RLess(p, q) == p[1] * q[2] < q[1] * p[2]
RLeq(p, q) == p[1] * q[2] <= q[1] * p[2]
RAbs(p) == <<Abs(p[1]), p[2]>>

-----------------------------------------------------------------------------
(* radialAverage (src/core.py 240-296) *)

\* n.linspace(0, s, s)[k]: s points from 0 to s inclusive, as a rational
Linspace0(s, k) == IF s = 1 THEN RInt(0) ELSE Rat(k * s, s - 1)

\* n.around(n.sqrt(q), decimals = 0) for the rational q = nn/dd^2 (dd > 0):
\* the nearest integer to sqrt(nn)/dd, a tie going to the even neighbour
RoundSqrt(nn, dd) ==
    CHOOSE r \in 0..(nn + 1) :
        /\ \/ r = 0
           \/ ((2 * r - 1) * dd) * ((2 * r - 1) * dd) < 4 * nn
           \/ ((2 * r - 1) * dd) * ((2 * r - 1) * dd) = 4 * nn /\ r % 2 = 0
        /\ \/ 4 * nn < ((2 * r + 1) * dd) * ((2 * r + 1) * dd)
           \/ 4 * nn = ((2 * r + 1) * dd) * ((2 * r + 1) * dd) /\ r % 2 = 0

\* R[i, j] of line 266, for 0-based indexes i, j.  X, Y = n.meshgrid(x, y)
\* makes X[i, j] = x[j] and Y[i, j] = y[i]: the first index i is paired with
\* yc = center[1] and the second index j with xc = center[0]
RadiusAt(shape, ctr, i, j) ==
    LET X == Linspace0(shape, j)
        Y == Linspace0(shape, i)
        dx == RSub(X, RInt(ctr[1]))
        dy == RSub(Y, RInt(ctr[2]))
        \* X and Y have the denominator shape - 1 (or 1): a common denominator
        dd == IF shape = 1 THEN 1 ELSE shape - 1
        nx == dx[1] * (dd \div dx[2])
        ny == dy[1] * (dd \div dy[2])
    IN  RoundSqrt(nx * nx + ny * ny, dd)

\* R.flatten(): the radii of all the pixels, row after row
RECURSIVE FlatRadius(_, _, _)
FlatRadius(shape, ctr, k) ==
    IF k = shape * shape THEN << >>
    ELSE <<RadiusAt(shape, ctr, k \div shape, k % shape)>>
            \o FlatRadius(shape, ctr, k + 1)

\* insertion of v in the ascending sequence s, unless s holds it
RECURSIVE InsertUnique(_, _)
InsertUnique(s, v) ==
    IF s = << >> THEN <<v>>
    ELSE IF v = Head(s) THEN s
    ELSE IF v < Head(s) THEN <<v>> \o s
    ELSE <<Head(s)>> \o InsertUnique(Tail(s), v)

\* a sort that keeps the duplicates
RECURSIVE SortedKeepDuplicates(_)
SortedKeepDuplicates(ar) ==
    IF ar = << >> THEN << >>
    ELSE LET rest == SortedKeepDuplicates(Tail(ar))
             low == SelectSeq(rest, LAMBDA v : v < Head(ar))
             high == SelectSeq(rest, LAMBDA v : v >= Head(ar))
         IN  low \o <<Head(ar)>> \o high

\* n.unique(ar): the sorted unique elements of ar
RECURSIVE Unique(_)
Unique(ar) ==
    IF ar = << >> THEN << >> ELSE InsertUnique(Unique(Tail(ar)), Head(ar))

\* n.where(unique_radii == r): the indexes (1-based here) of the bins equal to r
Where(unique_radii, r) == {k \in DOMAIN unique_radii : unique_radii[k] = r}

\* a skip test that takes the row of the center too
SkippedThroughCenterRow(i, ctr) == i <= ctr[1]

\* line 285: the pixels of the rows before center[0] are ignored
Skipped(i, ctr) == i < ctr[1]

\* line 279: bincount = n.ones_like(unique_radii)
BinInit == 1

\* lines 282-293: the loop over the pixels from the k-th on, in the order of
\* n.ndenumerate, on the accumulators acc = [accumulation, bincount]
RECURSIVE Accumulate(_, _, _, _, _)
Accumulate(img, ctr, unique_radii, acc, k) ==
    LET shape == Len(img)
        i == k \div shape
        j == k % shape
        ind == Where(unique_radii, RadiusAt(shape, ctr, i, j))
        next == [accumulation |->
                    [m \in DOMAIN unique_radii |->
                        IF m \in ind THEN acc.accumulation[m] + img[i + 1][j + 1]
                        ELSE acc.accumulation[m]],
                 bincount |->
                    [m \in DOMAIN unique_radii |->
                        IF m \in ind THEN acc.bincount[m] + 1
                        ELSE acc.bincount[m]]]
    IN  IF k = shape * shape THEN acc
        ELSE IF Skipped(i, ctr) THEN Accumulate(img, ctr, unique_radii, acc, k + 1)
        ELSE Accumulate(img, ctr, unique_radii, next, k + 1)

\* radialAverage(image, name, center): the RadialCurve returned at line 296
radialAverage(img, name, ctr) ==
    LET unique_radii == Unique(FlatRadius(Len(img), ctr, 0))
        zero == [accumulation |-> [m \in DOMAIN unique_radii |-> 0],
                 bincount |-> [m \in DOMAIN unique_radii |-> BinInit]]
        acc == Accumulate(img, ctr, unique_radii, zero, 0)
    IN  [xdata |-> unique_radii,
         ydata |-> [m \in DOMAIN unique_radii |->
                        Rat(acc.accumulation[m], acc.bincount[m])],
         name |-> name \o " radial average",
         color |-> "b"]

-----------------------------------------------------------------------------
(* RadialCurve (src/core.py 48-81) *)

\* The buffers of the heap.  An ndarray is a window [buf, off, len] on a buffer:
\* the same ndarray object, or a slice of it, reads and writes the same buffer.
Bufs == {"a.x", "a.y", "b.x", "b.y", "r.x", "r.y"}

NdArray(buf, off, len) == [buf |-> buf, off |-> off, len |-> len]

\* the values of the ndarray arr in the heap h
Values(h, arr) == [m \in 1..arr.len |-> h[arr.buf][arr.off + m]]

\* RadialCurve.__init__ (lines 52-58): the arguments are stored as they come
RadialCurve(xdata, ydata, name, color) ==
    [xdata |-> xdata, ydata |-> ydata, name |-> name, color |-> color]

\* the search of n.interp in xp for key (numpy's binary_search_with_guess on
\* an array of at most 4 items): the last 0-based j with xp[j] <= key, -1
\* below xp[0] and len above xp[len - 1]
RECURSIVE LinearSearch(_, _, _)
LinearSearch(key, xp, i) ==
    IF i < Len(xp) /\ key >= xp[i + 1] THEN LinearSearch(key, xp, i + 1) ELSE i - 1

Search(key, xp) ==
    IF key > xp[Len(xp)] THEN Len(xp)
    ELSE IF key < xp[1] THEN -1
    ELSE LinearSearch(key, xp, 1)

\* an interpolation that holds the previous sample instead of following the chord
Interp1Hold(x, xp, fp) ==
    LET j == Search(x, xp)
    IN  IF j = -1 THEN fp[1]
        ELSE IF j = Len(xp) THEN fp[Len(xp)]
        ELSE fp[j + 1]

\* n.interp(x, xp, fp) at one x: fp's edge values outside xp, fp[j] at a
\* sample, the chord between the samples j and j + 1 between them
Interp1(x, xp, fp) ==
    LET j == Search(x, xp)
    IN  IF j = -1 THEN fp[1]
        ELSE IF j = Len(xp) THEN fp[Len(xp)]
        ELSE IF j = Len(xp) - 1 THEN fp[j + 1]
        ELSE IF xp[j + 1] = x THEN fp[j + 1]
        ELSE LET slope == RDiv(RSub(fp[j + 2], fp[j + 1]), RInt(xp[j + 2] - xp[j + 1]))
             IN  RAdd(RMul(slope, RInt(x - xp[j + 1])), fp[j + 1])

Interp(x, xp, fp) == [m \in DOMAIN x |-> Interp1(x[m], xp, fp)]

\* n.argmin(v): the 0-based index of the first minimum of v, from index i on
\* with the best index k so far
RECURSIVE ArgMinFrom(_, _, _)
ArgMinFrom(v, i, k) ==
    IF i > Len(v) THEN k - 1
    ELSE IF v[i] < v[k] THEN ArgMinFrom(v, i + 1, i)
    ELSE ArgMinFrom(v, i + 1, k)

ArgMin(v) == ArgMinFrom(v, 2, 1)

\* line 76: the y of self - pattern, a new array
SubY(h, self, pattern) ==
    LET x == Values(h, self.xdata)
        y == Values(h, self.ydata)
        interp == Interp(x, Values(h, pattern.xdata), Values(h, pattern.ydata))
    IN  [m \in DOMAIN y |-> RSub(y[m], interp[m])]

\* line 76: the x of self - pattern is self.xdata itself, the same ndarray
SubX(self) == self.xdata

\* a subtraction in place, self.ydata -= n.interp(...)
SubHeapInPlace(h, self, pattern) ==
    [h EXCEPT !["r.x"] = << >>,
              !["r.y"] = SubY(h, self, pattern),
              ![self.ydata.buf] =
                  [m \in DOMAIN @ |->
                      IF m > self.ydata.off /\ m <= self.ydata.off + self.ydata.len
                      THEN SubY(h, self, pattern)[m - self.ydata.off] ELSE @[m]]]

\* line 76: the arrays __sub__ writes: the new array of the difference, in the
\* buffer "r.y" (the buffers of an earlier result are dropped)
SubHeap(h, self, pattern) ==
    [h EXCEPT !["r.x"] = << >>, !["r.y"] = SubY(h, self, pattern)]

\* line 81: cutoff writes no array, its slices are views
CutoffHeap(h, self, threshold) ==
    [h EXCEPT !["r.x"] = << >>, !["r.y"] = << >>]

\* RadialCurve.__sub__ (lines 73-76): the curve returned, its y in buffer "r.y"
Sub(h, self, pattern) ==
    RadialCurve(SubX(self),
                NdArray("r.y", 0, self.ydata.len),
                self.name, self.color)

\* line 80: cutoff_index = n.argmin(n.abs(self.xdata - cutoff[0]))
CutoffIndex(x, threshold) == ArgMin([m \in DOMAIN x |-> Abs(x[m] - threshold)])

\* arr[:k], the low end kept instead of the high end
SliceUpTo(arr, k) == NdArray(arr.buf, arr.off, k)

\* arr[k::], a basic slice: a view of arr's buffer from the k-th item on
SliceFrom(arr, k) == NdArray(arr.buf, arr.off + k, arr.len - k)

\* a cutoff that slices the x and keeps the whole y
CutoffXOnly(h, self, threshold) ==
    RadialCurve(SliceFrom(self.xdata, CutoffIndex(Values(h, self.xdata), threshold)),
                self.ydata, "Cutoff " \o self.name, self.color)

\* RadialCurve.cutoff (lines 78-81)
Cutoff(h, self, threshold) ==
    LET cutoff_index == CutoffIndex(Values(h, self.xdata), threshold)
    IN  RadialCurve(SliceFrom(self.xdata, cutoff_index),
                    SliceFrom(self.ydata, cutoff_index),
                    "Cutoff " \o self.name, self.color)

\* the x, y, name and color a curve shows in the heap h
Shown(h, curve) ==
    [xdata |-> Values(h, curve.xdata), ydata |-> Values(h, curve.ydata),
     name |-> curve.name, color |-> curve.color]

-----------------------------------------------------------------------------
(* The background estimators (src/core.py 83-170).  scipy's curve_fit is
   outside the repository: its outcome is an input of the model, but for the
   refusal of fewer data points than parameters, which is decided here.  The
   exponentials and the peak profiles are not computed: f(x; params) is the
   term <<f, params, x>>. *)

VoigtParams == 5    \* pseudoVoigt(x, height, xc, width_g, width_l, constant)
FamilyParams == 6   \* biexp(x, a, b, c, d, e, f); bilor(x, center, ..., const)

RECURSIVE RMaxFrom(_, _, _)
RMaxFrom(v, i, best) ==
    IF i > Len(v) THEN best
    ELSE RMaxFrom(v, i + 1, IF RLess(best, v[i]) THEN v[i] ELSE best)

RECURSIVE RMinFrom(_, _, _)
RMinFrom(v, i, best) ==
    IF i > Len(v) THEN best
    ELSE RMinFrom(v, i + 1, IF RLess(v[i], best) THEN v[i] ELSE best)

\* ydata.max(), ydata.min()
RMax(v) == RMaxFrom(v, 2, v[1])
RMin(v) == RMinFrom(v, 2, v[1])

\* xdata.min()
RECURSIVE MinFrom(_, _, _)
MinFrom(v, i, best) ==
    IF i > Len(v) THEN best
    ELSE MinFrom(v, i + 1, IF v[i] < best THEN v[i] ELSE best)

Min(v) == MinFrom(v, 2, v[1])

\* function(x, *params) of lines 12-32, uncomputed
FnValue(function, params, x) == <<function, params, x>>

\* arr[chunk_ind] for an index array: numpy counts a negative index from the
\* end, and refuses an index outside -len..len-1
IndexError(len, chunk_ind) == \E m \in DOMAIN chunk_ind : chunk_ind[m] >= len \/ chunk_ind[m] < -len
Take(arr, chunk_ind) ==
    [m \in DOMAIN chunk_ind |->
        arr[(IF chunk_ind[m] < 0 THEN chunk_ind[m] + Len(arr) ELSE chunk_ind[m]) + 1]]

\* line 105: n.arange(ind - chunk_size, ind + chunk_size + 1)
ChunkInd(ind, chunk_size) == [m \in 1..(2 * chunk_size + 1) |-> ind - chunk_size + m - 1]

RECURSIVE Flatten(_)
Flatten(chunks) == IF chunks = << >> THEN << >> ELSE Head(chunks) \o Flatten(Tail(chunks))

\* RadialCurve.prototypeInelasticBGSubstract (lines 83-130) on the curve of
\* abscissas x and ordinates y; solver[k] is curve_fit's outcome on the k-th
\* window.  The result: what is raised, or the ydata handed to curve_fit for
\* each window (line 115) and the y of the background and of the profiles,
\* all on self.xdata.
Stitched(x, y, xfeatures, chunk_size, solver) ==
    LET ind == [k \in DOMAIN xfeatures |-> CutoffIndex(x, xfeatures[k])]
        chunk == [k \in DOMAIN xfeatures |-> ChunkInd(ind[k], chunk_size)]
        xchunks == [k \in DOMAIN xfeatures |-> Take(x, chunk[k])]
        ychunks == [k \in DOMAIN xfeatures |-> Take(y, chunk[k])]
        constants == [k \in DOMAIN xfeatures |->
                        [m \in DOMAIN xchunks[k] |->
                            RAdd(solver[k].params[VoigtParams], RMin(ychunks[k]))]]
    IN  IF \E k \in DOMAIN xfeatures : IndexError(Len(x), chunk[k])
            THEN [raised |-> "IndexError"]
        ELSE IF 2 * chunk_size + 1 < VoigtParams
            THEN [raised |-> "TypeError"]
        ELSE IF \E k \in DOMAIN xfeatures : solver[k].raised # "no"
            THEN [raised |-> "RuntimeError"]
        ELSE [raised |-> "no",
              fitted |-> ychunks,
              background |-> Interp(x, Flatten(xchunks), Flatten(constants)),
              profiles |-> [k \in DOMAIN xfeatures |->
                              [m \in DOMAIN x |->
                                  FnValue("pseudoVoigt", solver[k].params, x[m])]]]

\* line 146: function = bilor if fit == 'bilor' else biexp
\* a selector that is ignored: the biexponential whatever the fit
FamilyBiexpOnly(fit) == "biexp"

Family(fit) == IF fit = "bilor" THEN "bilor" ELSE "biexp"

\* lines 153-154: guesses
FamilyGuesses(x, y) ==
    [biexp |-> <<RDiv(RMax(y), RInt(2)), Rat(1, 50), RDiv(RMax(y), RInt(2)),
                 Rat(1, 150), RMin(y), RInt(Min(x))>>,
     bilor |-> <<RInt(Min(x)), RDiv(RMax(y), Rat(3, 2)),
                 RDiv(RMax(y), RInt(2)), RInt(50), RInt(150), RMin(y)>>]

\* RadialCurve.inelasticBG (lines 132-170): what is raised, or the y of the
\* background on self.xdata and the parameters it was computed with
Global(x, y, xpoints, fit, solver) ==
    LET guesses == FamilyGuesses(x, y)
        anchors == Interp(xpoints, x, y)
        optimal == IF solver.raised = "RuntimeError" THEN guesses[fit] ELSE solver.params
    IN  IF fit \notin DOMAIN guesses THEN [raised |-> "KeyError"]
        ELSE IF Len(anchors) < FamilyParams THEN [raised |-> "TypeError"]
        ELSE IF solver.raised \notin {"no", "RuntimeError"} THEN [raised |-> solver.raised]
        ELSE [raised |-> "no",
              parameters |-> optimal,
              background |-> [m \in DOMAIN x |-> FnValue(Family(fit), optimal, x[m])]]

-----------------------------------------------------------------------------
(* circ and fCenter (src/core.py 177-234) *)

DefaultScale == 20  \* scalefactor = 20, the default of circ and of fCenter
Tolerance == 10     \* residual < 10
RowCutoff == 550    \* yMat > 550

\* im[i, j] for 0-based i, j: the image is im.fill but at the pixels of im.px
Pixel(img, i, j) ==
    IF <<i, j>> \in DOMAIN img.px THEN img.px[<<i, j>>] ELSE img.fill

\* n.linspace(1, s, s)[k] = k + 1; with xMat, yMat = n.meshgrid(.., ..) the
\* pixel im[i, j] has xMat[i, j] = j + 1 and yMat[i, j] = i + 1
XMat(i, j) == j + 1
YMat(i, j) == i + 1

\* a common denominator of the three coordinates of a ring
Denominator(ring) == ring[1][2] * ring[2][2] * ring[3][2]

\* line 230: the residual of the pixel (i, j) for the ring <<x, y, r>> in
\* pixels, times the square of the ring's common denominator d
Residual(ring, d, i, j) ==
    LET dx == XMat(i, j) * d - ring[1][1] * (d \div ring[1][2])
        dy == YMat(i, j) * d - ring[2][1] * (d \div ring[2][2])
        rr == ring[3][1] * (d \div ring[3][2])
    IN  dx * dx + dy * dy - rr * rr

\* a selected pixel lies within |r| + 4 of the center of the ring on each axis,
\* as (|r| + 4)^2 > r^2 + Tolerance: the pixels outside need no look
Floor(q) == q[1] \div q[2]
Near(ring, k, size) ==
    LET reach == RAdd(RAbs(ring[3]), RInt(4))
        lo == Floor(RSub(ring[k], reach)) - 1
        hi == Floor(RAdd(ring[k], reach))
    IN  {v \in lo..hi : 0 <= v /\ v < size}

\* line 231: (residual < 10) & (yMat > 550)
Mask(img, ring, d, i, j) ==
    /\ Residual(ring, d, i, j) < Tolerance * d * d
    /\ YMat(i, j) > RowCutoff

\* line 231: xvals, yvals = n.where(...), the selected pixels <<i, j>>
Selected(img, ring) ==
    LET d == Denominator(ring)
        rows == {i \in Near(ring, 2, img.shape) : YMat(i, 0) > RowCutoff}
    IN  {q \in rows \X Near(ring, 1, img.shape) : Mask(img, ring, d, q[1], q[2])}

RECURSIVE SumSpots(_, _)
SumSpots(img, S) ==
    IF S = {} THEN 0
    ELSE LET q == CHOOSE q \in S : TRUE
         IN  Pixel(img, q[1], q[2]) + SumSpots(img, S \ {q})

\* the sum of im over the pixels of S: the pixels of im.px one by one, and
\* im.fill for each of the others
SumOf(img, S) ==
    SumSpots(img, S \cap DOMAIN img.px) + img.fill * Cardinality(S \ DOMAIN img.px)

\* lines 232-234: 1/n.mean(im[xvals, yvals]); the mean of no pixel is nan and
\* 1/nan is nan, the mean 0 gives 1/0.0 = inf
ReciprocalMean(img, S) ==
    LET total == SumOf(img, S)
    IN  IF S = {} THEN [kind |-> "nan"]
        ELSE IF total = 0 THEN [kind |-> "inf"]
        ELSE [kind |-> "num", val |-> Rat(Cardinality(S), total)]

\* line 226: xgscaled, ygscaled, rgscaled = n.array([xg, yg, rg])*scalefactor
Scaled(point, scalefactor) ==
    [k \in 1..3 |-> RMul(point[k], RInt(scalefactor))]

\* circ(xg, yg, rg, im, scalefactor) (lines 206-234)
circ(point, img, scalefactor) ==
    ReciprocalMean(img, Selected(img, Scaled(point, scalefactor)))

\* line 199: c1 = lambda x: circ(x[0], x[1], x[2], im), circ's scalefactor
\* left to its default
c1(point, img) == circ(point, img, DefaultScale)

\* the ring on which c1 measures the image for the point x of the optimizer
c1Ring(point) == Scaled(point, DefaultScale)

\* line 198: n.array([xg, yg, rg])/scalefactor
Unscaled(guess, scalefactor) ==
    [k \in 1..3 |-> Rat(guess[k], scalefactor)]

\* a result that keeps the radius the optimizer reached
fCenterKeepsRadius(x, rg, scalefactor) == Scaled(x, scalefactor)

\* lines 200-204: the optimum x times scalefactor, its radius replaced by rg
fCenterResult(x, rg, scalefactor) ==
    <<Scaled(x, scalefactor)[1], Scaled(x, scalefactor)[2], RInt(rg)>>

\* f1 < f2 on floats: false as soon as one is nan
FloatLess(f1, f2) ==
    CASE f1.kind = "nan" \/ f2.kind = "nan" -> FALSE
      [] f1.kind = "inf" -> FALSE
      [] f2.kind = "inf" -> TRUE
      [] OTHER -> RLess(f1.val, f2.val)

\* one evaluation of the metric by the optimizer
Evaluation(point, img) ==
    [x |-> point, ring |-> c1Ring(point), f |-> c1(point, img)]

-----------------------------------------------------------------------------
(* The inputs of the model *)

\* circ is run on images that are dark but at a few pixels about the row cutoff
SpotPixels == (RowCutoff..(RowCutoff + 1)) \X {4, 8}

CircImages ==
    {[shape |-> RowCutoff + TailRows, px |-> spots, fill |-> 0] :
        spots \in [SpotPixels -> {0, MaxVal}]}

Images == [1..ImgSize -> [1..ImgSize -> {0, MaxVal}]]
Centers == [1..2 -> 0..(ImgSize - 1)]

-----------------------------------------------------------------------------
(* The specification of radialAverage: any image, any center within it *)

IdleCurves ==
    /\ heap = [k \in Bufs |-> << >>]
    /\ a = None
    /\ b = None
    /\ res = None
    /\ call = None
    /\ writes = 0

IdleCenter ==
    /\ im = None
    /\ fc = [pc |-> "idle"]

IdleGui ==
    /\ ui = None
    /\ ctl = None

InitRadial ==
    /\ image \in Images
    /\ center \in Centers
    /\ radial = None
    /\ IdleCurves
    /\ IdleCenter
    /\ IdleGui

RadialAverage ==
    /\ image # None
    /\ radial' = radialAverage(image, "image", center)
    /\ UNCHANGED <<image, center, heap, a, b, res, call, writes, im, fc, ui, ctl>>

NextRadial == RadialAverage

SpecRadial == InitRadial /\ [][NextRadial]_vars

-----------------------------------------------------------------------------
(* The specification of the curve operations: any two operand curves of the
   data model (as many y as x, x non-decreasing, duplicates allowed) *)

Intensities == {RInt(0), RInt(MaxVal)}

CurveData ==
    UNION {{[x |-> xs, y |-> ys] :
                xs \in {g \in [1..len -> 0..MaxX] :
                            \A k \in 1..(len - 1) : g[k] <= g[k + 1]},
                ys \in [1..len -> Intensities]} : len \in 1..MaxLen}

IdleRadial ==
    /\ image = None
    /\ center = None
    /\ radial = None

ShortData == {d \in CurveData : Len(d.x) = 1}

LongData ==
    {[x |-> [k \in 1..VoigtParams |-> k - 1], y |-> ys] :
        ys \in [1..VoigtParams -> Intensities]}

Operands(da, db) ==
    /\ heap = [k \in Bufs |->
                 CASE k = "a.x" -> da.x
                   [] k = "a.y" -> da.y
                   [] k = "b.x" -> db.x
                   [] k = "b.y" -> db.y
                   [] OTHER -> << >>]
    /\ a = RadialCurve(NdArray("a.x", 0, Len(da.x)), NdArray("a.y", 0, Len(da.y)),
                       "A", "r")
    /\ b = RadialCurve(NdArray("b.x", 0, Len(db.x)), NdArray("b.y", 0, Len(db.y)),
                       "B", "g")
    /\ res = None
    /\ call = None
    /\ writes = 0

InitCurve ==
    /\ \E da \in CurveData, db \in CurveData : Operands(da, db)
    /\ IdleRadial
    /\ IdleCenter
    /\ IdleGui

\* a - pattern, for pattern one of the two operand objects (a itself, or b)
Subtract ==
    /\ a # None
    /\ \E pattern \in {a, b} :
        /\ heap' = SubHeap(heap, a, pattern)
        /\ res' = Sub(heap, a, pattern)
        /\ call' = [op |-> "sub", self |-> Shown(heap, a),
                    pattern |-> Shown(heap, pattern), ret |-> Shown(heap', res')]
    /\ UNCHANGED <<image, center, radial, a, b, writes, im, fc, ui, ctl>>

Thresholds == (-1)..(MaxX + 1)

\* a.cutoff([threshold, 0])
CutOff ==
    /\ a # None
    /\ \E threshold \in Thresholds :
        /\ heap' = CutoffHeap(heap, a, threshold)
        /\ res' = Cutoff(heap, a, threshold)
        /\ call' = [op |-> "cutoff", self |-> Shown(heap, a),
                    threshold |-> threshold, ret |-> Shown(heap', res')]
    /\ UNCHANGED <<image, center, radial, a, b, writes, im, fc, ui, ctl>>

NextCurve == Subtract \/ CutOff

SpecCurve == InitCurve /\ [][NextCurve]_vars

\* arr[m] = v by a holder of the curve: the write lands in arr's buffer
SetItem(curve, field, m, v) ==
    /\ writes < MaxWrites
    /\ heap' = [heap EXCEPT ![curve[field].buf][curve[field].off + m] = v]
    /\ writes' = writes + 1
    /\ UNCHANGED <<image, center, radial, a, b, res, call, im, fc, ui, ctl>>

SetItemOf(curve) ==
    \/ \E m \in 1..curve.xdata.len, v \in 0..MaxX : SetItem(curve, "xdata", m, v)
    \/ \E m \in 1..curve.ydata.len, v \in Intensities : SetItem(curve, "ydata", m, v)

\* an in-place write to the x or the y of the curve last returned
ModifyResult == res # None /\ SetItemOf(res)

\* an in-place write to the x or the y of an operand
ModifyOperand == SetItemOf(a) \/ SetItemOf(b)

NextAlias == Subtract \/ CutOff \/ ModifyResult \/ ModifyOperand

SpecAlias == InitCurve /\ [][NextAlias]_vars

-----------------------------------------------------------------------------
(* The specification of the center search: fCenter on an image that is dark
   but at a few pixels about the row cutoff, for a guess and a scale factor;
   the optimizer evaluates the metric at its starting point, then at points
   one pixel away from it, and returns the best point it evaluated *)

Guesses == {5} \X {276, RowCutoff + 2} \X {2, 4}
ScaleFactors == {10, DefaultScale}

\* the steps of the optimizer from its starting point, in its own units
Steps ==
    {<<1, 0, 0>>, <<-1, 0, 0>>, <<0, 1, 0>>, <<0, -1, 0>>, <<0, 0, 1>>, <<0, 0, -1>>}

InitCenter ==
    /\ im \in CircImages
    /\ fc = [pc |-> "idle"]
    /\ IdleRadial
    /\ IdleCurves
    /\ IdleGui

\* fCenter(xg, yg, rg, im, scalefactor) up to the first evaluation of the
\* metric, at the starting point of opt.minimize
FCenterStart ==
    /\ im # None
    /\ fc.pc = "idle"
    /\ \E guess \in Guesses, scalefactor \in ScaleFactors :
        LET e == Evaluation(Unscaled(guess, scalefactor), im)
        IN  fc' = [pc |-> "minimize", guess |-> guess, scalefactor |-> scalefactor,
                   start |-> e, last |-> e, best |-> e, probes |-> 0]
    /\ UNCHANGED <<image, center, radial, heap, a, b, res, call, writes, im, ui, ctl>>

\* opt.minimize evaluates the metric at one more point and keeps the best
FCenterProbe ==
    /\ fc.pc = "minimize"
    /\ fc.probes < MaxProbes
    /\ \E step \in Steps :
          LET x == [k \in 1..3 |->
                        RAdd(fc.start.x[k], Rat(step[k], DefaultScale))]
              e == Evaluation(x, im)
          IN  fc' = [fc EXCEPT !.last = e,
                               !.best = IF FloatLess(e.f, fc.best.f) THEN e ELSE @,
                               !.probes = @ + 1]
    /\ UNCHANGED <<image, center, radial, heap, a, b, res, call, writes, im, ui, ctl>>

\* opt.minimize returns its best point; fCenter returns at line 204
FCenterReturn ==
    /\ fc.pc = "minimize"
    /\ fc' = [pc |-> "done", guess |-> fc.guess, scalefactor |-> fc.scalefactor,
              start |-> fc.start, last |-> fc.last, best |-> fc.best,
              probes |-> fc.probes,
              result |-> fCenterResult(fc.best.x, fc.guess[3], fc.scalefactor)]
    /\ UNCHANGED <<image, center, radial, heap, a, b, res, call, writes, im, ui, ctl>>

NextCenter == FCenterStart \/ FCenterProbe \/ FCenterReturn

SpecCenter == InitCenter /\ [][NextCenter]_vars

-----------------------------------------------------------------------------
(* The specification of the whole core: radialAverage on an image, or the
   center search on an image, or the curve operations and the two background
   estimators on a short curve or on a curve as long as a fit window *)

InitCoreCurves ==
    /\ \E da \in ShortData \cup LongData, db \in ShortData : Operands(da, db)
    /\ IdleRadial
    /\ IdleCenter
    /\ IdleGui

InitCore == InitRadial \/ InitCenter \/ InitCoreCurves

\* the x of the diffraction features and the half-widths of their windows
FeatureLists == {<<2>>, <<0>>, <<1, 3>>, <<2, 3>>}
ChunkSizes == {1, 2}

\* the outcomes of curve_fit on a window: parameters, or no convergence
VoigtOutcomes ==
    {[raised |-> "no", params |-> <<RInt(1), RInt(2), RInt(1), RInt(1), RInt(c)>>] :
        c \in {0, 1}}
    \cup {[raised |-> "RuntimeError"]}

\* a.prototypeInelasticBGSubstract(points, chunk_size) for a list of points
\* whose x are in lists
StitchedOn(lists) ==
    /\ a # None
    /\ \E xfeatures \in lists, chunk_size \in ChunkSizes :
       \E solver \in [DOMAIN xfeatures -> VoigtOutcomes] :
       \E out \in {Stitched(Values(heap, a.xdata), Values(heap, a.ydata),
                           xfeatures, chunk_size, solver)} :
          LET args(ret, profiles, fitted) ==
                  [op |-> "stitched", self |-> Shown(heap, a),
                   xfeatures |-> xfeatures, chunk_size |-> chunk_size,
                   raised |-> out.raised, ret |-> ret, profiles |-> profiles,
                   fitted |-> fitted]
          IN  IF out.raised = "no"
              THEN /\ heap' = [heap EXCEPT !["r.x"] = << >>, !["r.y"] = out.background]
                   /\ res' = RadialCurve(a.xdata, NdArray("r.y", 0, Len(out.background)),
                                         "background", "b")
                   /\ call' = args(Shown(heap', res'), out.profiles, out.fitted)
              ELSE /\ heap' = [heap EXCEPT !["r.x"] = << >>, !["r.y"] = << >>]
                   /\ res' = None
                   /\ call' = args(None, << >>, << >>)
    /\ UNCHANGED <<image, center, radial, a, b, writes, im, fc, ui, ctl>>

StitchedBG == StitchedOn(FeatureLists)

\* the x of the background anchors, and the selector of the family
AnchorLists == {<<0>>, <<1, 0>>, [k \in 1..FamilyParams |-> k - 1]}
Fits == {"biexp", "bilor", "voigt"}

\* the outcomes of curve_fit on the anchors: parameters, or no convergence
FamilyOutcomes ==
    {[raised |-> "no", params |-> [k \in 1..FamilyParams |-> RInt(1)]],
     [raised |-> "RuntimeError"]}

\* a.inelasticBG(points, fit)
GlobalBG ==
    /\ a # None
    /\ \E xpoints \in AnchorLists, fit \in Fits, solver \in FamilyOutcomes :
       \E out \in {Global(Values(heap, a.xdata), Values(heap, a.ydata),
                         xpoints, fit, solver)} :
          LET args(ret, parameters) ==
                  [op |-> "global", self |-> Shown(heap, a),
                   xpoints |-> xpoints, fit |-> fit, solver |-> solver.raised,
                   raised |-> out.raised, ret |-> ret, parameters |-> parameters]
          IN  IF out.raised = "no"
              THEN /\ heap' = [heap EXCEPT !["r.x"] = << >>, !["r.y"] = out.background]
                   /\ res' = RadialCurve(a.xdata, NdArray("r.y", 0, Len(out.background)),
                                         "IBG " \o a.name, "b")
                   /\ call' = args(Shown(heap', res'), out.parameters)
              ELSE /\ heap' = [heap EXCEPT !["r.x"] = << >>, !["r.y"] = << >>]
                   /\ res' = None
                   /\ call' = args(None, << >>)
    /\ UNCHANGED <<image, center, radial, a, b, writes, im, fc, ui, ctl>>

NextCore ==
    \/ RadialAverage
    \/ FCenterStart \/ FCenterProbe \/ FCenterReturn
    \/ Subtract \/ CutOff \/ StitchedBG \/ GlobalBG

SpecCore == InitCore /\ [][NextCore]_vars

-----------------------------------------------------------------------------
(* The specification of the background estimators: the two estimators on a
   curve of one sample, or of one sample more than a fit window *)

WideData ==
    {[x |-> [k \in 1..(VoigtParams + 1) |-> k - 1], y |-> ys] :
        ys \in [1..(VoigtParams + 1) -> Intensities]}

InitBG ==
    /\ \E da \in ShortData \cup WideData : Operands(da, da)
    /\ IdleRadial
    /\ IdleCenter
    /\ IdleGui

NextBG == StitchedBG \/ GlobalBG

SpecBG == InitBG /\ [][NextBG]_vars

-----------------------------------------------------------------------------
(* The specification of the curve operations on a malformed operand: the
   pattern b is a curve of three samples whose x is not monotonic *)

Monotonic(xs) ==
    \/ \A k \in 1..(Len(xs) - 1) : xs[k] <= xs[k + 1]
    \/ \A k \in 1..(Len(xs) - 1) : xs[k] >= xs[k + 1]

UnsortedData ==
    {[x |-> xs, y |-> ys] :
        xs \in {g \in [1..3 -> 0..MaxX] : ~Monotonic(g)},
        ys \in [1..3 -> Intensities]}

InitMalformed ==
    /\ \E da \in ShortData, db \in UnsortedData : Operands(da, db)
    /\ IdleRadial
    /\ IdleCenter
    /\ IdleGui

SpecMalformed == InitMalformed /\ [][NextCurve]_vars

-----------------------------------------------------------------------------
(* The specification of the stitched estimator on two features: a curve of
   two fit windows side by side, each flat but for its first sample, and the
   two features at the middles of the windows, listed in either order *)

TwoWindowData ==
    {[x |-> [k \in 1..(2 * VoigtParams) |-> k - 1],
      y |-> [k \in 1..(2 * VoigtParams) |->
                IF k = 1 THEN p[1]
                ELSE IF k <= VoigtParams THEN p[2]
                ELSE IF k = VoigtParams + 1 THEN p[3]
                ELSE p[4]]] :
        p \in [1..4 -> Intensities]}

FeaturePairs == {<<2, 7>>, <<7, 2>>}

InitPairs ==
    /\ \E da \in TwoWindowData : Operands(da, da)
    /\ IdleRadial
    /\ IdleCenter
    /\ IdleGui

StitchedPairs == StitchedOn(FeaturePairs)

NextPairs == StitchedPairs

SpecPairs == InitPairs /\ [][NextPairs]_vars

-----------------------------------------------------------------------------
(* The UEDpowder window and its ImageViewer (src/gui.py).  ui.log is the
   history of the handlers that took effect since the most recent image load
   or Reject, ui.runs the number of calls of fCenter, ui.events the number of
   events handled *)

\* event.xdata, event.ydata of a click on the data; outside the data they are None
Position(x, y) == [x |-> x, y |-> y]
ClickPositions == {Position(0, 0), Position(3, 0), Position(3, 4)}

\* n.linalg.norm(p - q), for positions whose distance is an integer
Norm(p, q) ==
    LET d2 == (p.x - q.x) * (p.x - q.x) + (p.y - q.y) * (p.y - q.y)
    IN  [value |-> CHOOSE r \in 0..d2 : r * r = d2]

\* UEDpowder.__init__ (lines 165-174) and ImageViewer.__init__ (lines 47-53);
\* [unset |-> TRUE] is an attribute that was never assigned
InitUi ==
    /\ ui = [state |-> "initial", image |-> None, image_center |-> << >>,
             guess_center |-> [unset |-> TRUE], guess_radius |-> [unset |-> TRUE],
             viewer |-> [last_click_position |-> Position(0, 0),
                         guess_center |-> None, guess_radius |-> None],
             log |-> << >>, runs |-> 0, events |-> 0]
    /\ ctl = None
    /\ IdleRadial
    /\ IdleCurves
    /\ IdleCenter

\* UEDpowder.imageLocator / loadImage (lines 275-279, 318-321)
loadImage(w, filename) ==
    [w EXCEPT !.image = filename, !.state = "data loaded", !.log = <<"load">>]

\* ImageViewer.click (lines 76-93)
click(w, event) ==
    LET position == IF event = None THEN Position(0, 0) ELSE event
        seen == [w EXCEPT !.viewer.last_click_position = position]
    IN  IF w.state = "data loaded"
        THEN [seen EXCEPT !.guess_center = position,
                          !.state = "center guessed",
                          !.log = Append(@, "center")]
        ELSE IF w.state = "center guessed"
        THEN [seen EXCEPT !.guess_radius = Norm(w.guess_center, position),
                          !.state = "radius guessed",
                          !.log = Append(@, "radius")]
        ELSE seen

\* the optimum opt.minimize may return to fCenter for a guess, in its units:
\* the starting point or a point one pixel away
Optima(guess) ==
    LET start == Unscaled(guess, DefaultScale)
    IN  {start, <<RAdd(start[1], Rat(1, DefaultScale)), start[2], start[3]>>}

\* a Reject that leaves the window ready for Execute
RejectKeepsRadius == "radius guessed"

\* the state in which Reject leaves the window (line 291)
RejectState == "data loaded"

\* UEDpowder.executeStateOperation (lines 298-310) for the optimum best
executeStateOperation(w, best) ==
    IF w.state = "radius guessed"
    THEN LET c == fCenterResult(best, w.guess_radius.value, DefaultScale)
         IN  [w EXCEPT !.image_center = <<c[1], c[2]>>,
                       !.state = "center found",
                       !.runs = @ + 1,
                       !.log = Append(@, "fCenter")]
    ELSE w

\* UEDpowder.acceptState (lines 281-285)
acceptState(w) ==
    IF w.state = "center found"
    THEN [w EXCEPT !.state = "radial averaged", !.log = Append(@, "accept")]
    ELSE w

\* UEDpowder.rejectState (lines 287-293)
rejectState(w) ==
    IF w.state = "center found"
    THEN [w EXCEPT !.state = RejectState,
                   !.viewer.guess_center = None,
                   !.viewer.guess_radius = None,
                   !.log = <<"reject">>]
    ELSE w

LoadImage ==
    /\ ui # None
    /\ ui.events < MaxEvents
    /\ \E filename \in {"a.tif", "b.tif"} : ui' = [loadImage(ui, filename) EXCEPT !.events = @ + 1]
    /\ UNCHANGED <<image, center, radial, heap, a, b, res, call, writes, im, fc, ctl>>

Click ==
    /\ ui # None
    /\ ui.events < MaxEvents
    /\ \E event \in ClickPositions \cup {None} : ui' = [click(ui, event) EXCEPT !.events = @ + 1]
    /\ UNCHANGED <<image, center, radial, heap, a, b, res, call, writes, im, fc, ctl>>

Execute ==
    /\ ui # None
    /\ ui.events < MaxEvents
    /\ \E best \in (IF ui.state = "radius guessed"
                    THEN Optima(<<ui.guess_center.x, ui.guess_center.y, ui.guess_radius.value>>)
                    ELSE {None}) :
          ui' = [executeStateOperation(ui, best) EXCEPT !.events = @ + 1]
    /\ UNCHANGED <<image, center, radial, heap, a, b, res, call, writes, im, fc, ctl>>

Accept ==
    /\ ui # None
    /\ ui.events < MaxEvents
    /\ ui' = [acceptState(ui) EXCEPT !.events = @ + 1]
    /\ UNCHANGED <<image, center, radial, heap, a, b, res, call, writes, im, fc, ctl>>

Reject ==
    /\ ui # None
    /\ ui.events < MaxEvents
    /\ ui' = [rejectState(ui) EXCEPT !.events = @ + 1]
    /\ UNCHANGED <<image, center, radial, heap, a, b, res, call, writes, im, fc, ctl>>

NextUi == LoadImage \/ Click \/ Execute \/ Accept \/ Reject

SpecUi == InitUi /\ [][NextUi]_vars

-----------------------------------------------------------------------------
(* The IrisController and its WorkThread (src/iris/gui/controller.py).
   A slot runs to completion in the thread of the controller; the run method
   of the worker advances in its own thread, and the signals it emits reach
   the slots connected to them through ctl.queue.  ctl.last is the record of
   the most recent slot invocation, ctl.series whether powder_time_series was
   ever invoked *)

\* the value False of Python
PyFalse == [bool |-> FALSE]

DatasetFiles == {"f1", "f2"}

\* the outcome of running code on the controller c: the controller afterwards,
\* the signals emitted, whether an exception is in flight, and the wrapped
\* methods that were entered with whether the body of each raised
Outcome(c) == [c |-> c, out |-> << >>, exc |-> FALSE, calls |-> << >>]

Emit(o, name, value) ==
    [o EXCEPT !.out = Append(@, [signal |-> name, value |-> value])]

Raise(o) == [o EXCEPT !.exc = TRUE]

\* a method left as written, without the handler of error_aware
error_unaware(method, o) ==
    [o EXCEPT !.calls = Append(@, [method |-> method, raised |-> o.exc])]

\* error_aware (lines 18-32) around a body whose outcome is o; warnings.warn
\* prints under the default filters
error_aware(method, o) ==
    LET entered == [o EXCEPT !.calls = Append(@, [method |-> method, raised |-> o.exc])]
    IN  IF o.exc
        THEN [Emit(entered, "error_message", [traceback |-> method])
                 EXCEPT !.exc = FALSE]
        ELSE entered

\* IrisController.__init__ (lines 83-108); of the files, f2 holds a powder group
Controller ==
    [worker |-> None, raw_dataset |-> None, dataset |-> None,
     bgr_powder |-> FALSE, relative_powder |-> FALSE, relative_averaged |-> FALSE,
     powder_error |-> TRUE,
     averaged_data_container |-> None,
     powder_time_series_container |-> PyFalse,
     powder_files |-> {"f2"}, queue |-> << >>,
     last |-> None, series |-> FALSE, ncalls |-> 0]

\* display_averaged_data (lines 115-127)
display_averaged_data(o) ==
    error_aware("display_averaged_data",
        IF o.c.dataset = None
        THEN Raise(o)
        ELSE LET data == [file |-> o.c.dataset.filename,
                          relative |-> o.c.relative_averaged]
             IN  Emit([o EXCEPT !.c.averaged_data_container = data],
                      "averaged_data", data))

\* display_powder_data (lines 129-136)
display_powder_data(o) ==
    error_aware("display_powder_data",
        IF o.c.dataset = None \/ ~o.c.dataset.powder
        THEN Raise(o)
        ELSE Emit(o, "powder_data",
                  [file |-> o.c.dataset.filename, relative |-> o.c.relative_powder]))

\* enable_powder_relative (lines 143-146)
enable_powder_relative(o, enable) ==
    error_aware("enable_powder_relative",
        display_powder_data([o EXCEPT !.c.relative_powder = enable]))

\* enable_averaged_relative (lines 148-154)
enable_averaged_relative(o, enable) ==
    error_aware("enable_averaged_relative",
        LET set == [o EXCEPT !.c.relative_averaged = enable]
        IN  IF set.c.averaged_data_container # None
            THEN Emit(set, "averaged_data", set.c.averaged_data_container)
            ELSE set)

\* WorkThread.__init__ (lines 349-354)
WorkThread(function, filename) ==
    [function |-> function, filename |-> filename, pc |-> "created",
     emitted |-> << >>]

\* process_raw_dataset (lines 161-169); the processed file is named in info_dict
process_raw_dataset(o, destination) ==
    error_aware("process_raw_dataset",
        LET made == [o EXCEPT !.c.worker = WorkThread("process", destination)]
            shown == Emit(made, "processing_progress", [percent |-> 0])
        IN  [shown EXCEPT !.c.worker.pc = "started"])

\* promote_to_powder and recompute_angular_average (lines 171-189)
StartOnDataset(o, function) ==
    IF o.c.dataset = None
    THEN Raise(o)
    ELSE [o EXCEPT !.c.worker = [WorkThread(function, o.c.dataset.filename)
                                    EXCEPT !.pc = "started"],
                   !.c.dataset = None]

promote_to_powder(o) ==
    error_aware("promote_to_powder", StartOnDataset(o, "promote_to_powder"))

recompute_angular_average(o) ==
    error_aware("recompute_angular_average",
                StartOnDataset(o, "recompute_angular_average"))

\* powder_time_series (lines 191-199); with out = False the call in the try
\* raises and the except clause allocates the container
powder_time_series(o) ==
    error_aware("powder_time_series",
        LET called == [o EXCEPT !.c.series = TRUE]
        IN  IF called.c.dataset = None \/ ~called.c.dataset.powder
            THEN Raise(called)
            ELSE LET data == [file |-> called.c.dataset.filename,
                              bgr |-> called.c.bgr_powder]
                 IN  Emit([called EXCEPT !.c.powder_time_series_container = data],
                          "powder_time_series", data))

\* set_time_zero_shift (lines 231-246)
set_time_zero_shift(o, shift) ==
    error_aware("set_time_zero_shift",
        IF o.c.dataset = None
        THEN Raise(o)
        ELSE IF shift # o.c.dataset.time_zero_shift
        THEN LET set == Emit([o EXCEPT !.c.dataset.time_zero_shift = shift],
                             "dataset_metadata", [file |-> o.c.dataset.filename])
                 shown == IF set.c.relative_powder THEN display_powder_data(set) ELSE set
             IN  IF shown.exc
                 THEN shown
                 ELSE IF shown.c.powder_time_series_container # None
                 THEN Emit(shown, "powder_time_series",
                           shown.c.powder_time_series_container)
                 ELSE shown
        ELSE o)

\* close_dataset (lines 301-310)
close_dataset(o) ==
    error_aware("close_dataset",
        Emit(Emit(Emit(Emit([o EXCEPT !.c.dataset = None],
            "processed_dataset_loaded", PyFalse),
            "powder_dataset_loaded", PyFalse),
            "averaged_data", None),
            "powder_data", None))

\* load_dataset (lines 279-299); opens: whether the file can be opened
load_dataset(o, path, opens) ==
    error_aware("load_dataset",
        IF path = ""
        THEN o
        ELSE LET closed == close_dataset(o)
                 opened == [closed EXCEPT !.c.dataset =
                               [filename |-> path,
                                powder |-> path \in closed.c.powder_files,
                                time_zero_shift |-> 0]]
                 told == Emit(Emit(opened,
                            "dataset_metadata", [file |-> path]),
                            "processed_dataset_loaded", [bool |-> TRUE])
                 shown == display_averaged_data(told)
                 powder == display_powder_data(shown)
             IN  IF closed.exc THEN closed
                 ELSE IF ~opens THEN Raise(closed)
                 ELSE IF shown.exc \/ ~shown.c.dataset.powder THEN shown
                 ELSE IF powder.exc THEN powder
                 ELSE Emit(powder, "powder_dataset_loaded", [bool |-> TRUE]))

\* the worker thread is between start() and the end of run
Running(worker) == worker # None /\ worker.pc \in {"started", "evaluating"}

\* the controller after a slot was invoked with outcome o
Invoked(method, o) ==
    [o.c EXCEPT !.last = [method |-> method, out |-> o.out, calls |-> o.calls,
                          propagated |-> o.exc],
                !.ncalls = @ + 1]

\* whether opening path succeeds: the file the function of a worker is working
\* on may be locked
Opens(c, path) ==
    IF c.worker # None /\ c.worker.pc = "evaluating" /\ c.worker.filename = path
    THEN BOOLEAN
    ELSE {TRUE}

InitCtl ==
    /\ ctl = Controller
    /\ ui = None
    /\ IdleRadial
    /\ IdleCurves
    /\ IdleCenter

LoadDataset ==
    /\ ctl # None
    /\ ctl.ncalls < MaxCalls
    /\ \E path \in DatasetFiles \cup {""} : \E opens \in Opens(ctl, path) :
          ctl' = Invoked("load_dataset", load_dataset(Outcome(ctl), path, opens))
    /\ UNCHANGED <<image, center, radial, heap, a, b, res, call, writes, im, fc, ui>>

CloseDataset ==
    /\ ctl # None
    /\ ctl.ncalls < MaxCalls
    /\ ctl' = Invoked("close_dataset", close_dataset(Outcome(ctl)))
    /\ UNCHANGED <<image, center, radial, heap, a, b, res, call, writes, im, fc, ui>>

DisplayAveragedData ==
    /\ ctl # None
    /\ ctl.ncalls < MaxCalls
    /\ ctl' = Invoked("display_averaged_data", display_averaged_data(Outcome(ctl)))
    /\ UNCHANGED <<image, center, radial, heap, a, b, res, call, writes, im, fc, ui>>

EnableAveragedRelative ==
    /\ ctl # None
    /\ ctl.ncalls < MaxCalls
    /\ \E enable \in BOOLEAN :
          ctl' = Invoked("enable_averaged_relative",
                         enable_averaged_relative(Outcome(ctl), enable))
    /\ UNCHANGED <<image, center, radial, heap, a, b, res, call, writes, im, fc, ui>>

EnablePowderRelative ==
    /\ ctl # None
    /\ ctl.ncalls < MaxCalls
    /\ \E enable \in BOOLEAN :
          ctl' = Invoked("enable_powder_relative",
                         enable_powder_relative(Outcome(ctl), enable))
    /\ UNCHANGED <<image, center, radial, heap, a, b, res, call, writes, im, fc, ui>>

PowderTimeSeries ==
    /\ ctl # None
    /\ ctl.ncalls < MaxCalls
    /\ ctl' = Invoked("powder_time_series", powder_time_series(Outcome(ctl)))
    /\ UNCHANGED <<image, center, radial, heap, a, b, res, call, writes, im, fc, ui>>

SetTimeZeroShift ==
    /\ ctl # None
    /\ ctl.ncalls < MaxCalls
    /\ \E shift \in {0, 1} :
          ctl' = Invoked("set_time_zero_shift", set_time_zero_shift(Outcome(ctl), shift))
    /\ UNCHANGED <<image, center, radial, heap, a, b, res, call, writes, im, fc, ui>>

\* a slot that starts a worker, invoked while no worker is running
StartWorker ==
    /\ ctl # None
    /\ ctl.ncalls < MaxCalls
    /\ ~Running(ctl.worker)
    /\ \/ ctl' = Invoked("promote_to_powder", promote_to_powder(Outcome(ctl)))
       \/ ctl' = Invoked("recompute_angular_average",
                         recompute_angular_average(Outcome(ctl)))
       \/ \E destination \in DatasetFiles :
             ctl' = Invoked("process_raw_dataset",
                            process_raw_dataset(Outcome(ctl), destination))
    /\ UNCHANGED <<image, center, radial, heap, a, b, res, call, writes, im, fc, ui>>

\* WorkThread.run, line 360
WorkerBegin ==
    /\ ctl # None
    /\ ctl.worker # None
    /\ ctl.worker.pc = "started"
    /\ ctl' = [ctl EXCEPT !.worker.pc = "evaluating",
                          !.worker.emitted = Append(@, "in_progress")]
    /\ UNCHANGED <<image, center, radial, heap, a, b, res, call, writes, im, fc, ui>>

\* WorkThread.run, lines 361-363, the function returning its result; done_signal
\* has a slot connected for process only (line 167), results_signal always
WorkerReturn ==
    /\ ctl # None
    /\ ctl.worker # None
    /\ ctl.worker.pc = "evaluating"
    /\ ctl' = [ctl EXCEPT
                 !.worker.pc = "over",
                 !.worker.emitted = @ \o <<"done", "results">>,
                 !.powder_files = IF ctl.worker.function = "promote_to_powder"
                                  THEN @ \cup {ctl.worker.filename} ELSE @,
                 !.queue = @ \o (IF ctl.worker.function = "process"
                                  THEN <<[signal |-> "done", value |-> [bool |-> TRUE]]>>
                                  ELSE << >>)
                             \o <<[signal |-> "results",
                                   value |-> [result |-> ctl.worker.filename]]>>]
    /\ UNCHANGED <<image, center, radial, heap, a, b, res, call, writes, im, fc, ui>>

\* WorkThread.run, line 361, the function raising: the thread ends there
WorkerRaise ==
    /\ ctl # None
    /\ ctl.worker # None
    /\ ctl.worker.pc = "evaluating"
    /\ ctl' = [ctl EXCEPT !.worker.pc = "over"]
    /\ UNCHANGED <<image, center, radial, heap, a, b, res, call, writes, im, fc, ui>>

\* the event loop of the controller delivers a signal of the worker
Deliver ==
    /\ ctl # None
    /\ ctl.queue # << >>
    /\ LET head == ctl.queue[1]
           rest == [ctl EXCEPT !.queue = Tail(@), !.ncalls = @ - 1]
       IN  IF head.signal = "results"
           THEN \E opens \in Opens(rest, head.value.result) :
                   ctl' = Invoked("load_dataset",
                                  load_dataset(Outcome(rest), head.value.result, opens))
           ELSE ctl' = Invoked("lambda",
                               Emit(Outcome(rest), "processing_progress", [percent |-> 100]))
    /\ UNCHANGED <<image, center, radial, heap, a, b, res, call, writes, im, fc, ui>>

NextCtl ==
    \/ LoadDataset
    \/ CloseDataset
    \/ DisplayAveragedData
    \/ EnableAveragedRelative
    \/ EnablePowderRelative
    \/ PowderTimeSeries
    \/ SetTimeZeroShift
    \/ StartWorker
    \/ WorkerBegin
    \/ WorkerReturn
    \/ WorkerRaise
    \/ Deliver

SpecCtl == InitCtl /\ [][NextCtl]_vars

-----------------------------------------------------------------------------
(* Claims on the curve operations *)

Zero == RInt(0)

\* C3: for every curve of the data model (duplicate x allowed), the curve
\* minus itself is a curve on the same x grid whose y is zero at every sample.
C3_SelfSubtractionZero ==
    (call # None /\ call.op = "sub"
        /\ call.pattern.xdata = call.self.xdata
        /\ call.pattern.ydata = call.self.ydata) =>
            /\ call.ret.xdata = call.self.xdata
            /\ \A m \in DOMAIN call.ret.ydata : call.ret.ydata[m] = Zero

\* the 0-based index of the first of the samples of x nearest to t
NearestIndex(x, t) ==
    CHOOSE k \in 0..(Len(x) - 1) :
        /\ \A i \in DOMAIN x : Abs(x[k + 1] - t) <= Abs(x[i] - t)
        /\ \A i \in 1..k : Abs(x[i] - t) > Abs(x[k + 1] - t)

\* C4: cutoff returns the samples from index k to the end, k the index of the
\* x-sample nearest the threshold: original_length - k samples, the operand's
\* samples k.. in the same order, none with an x below the nearest sampled x.
C4_CutoffSuffix ==
    (call # None /\ call.op = "cutoff") =>
        LET x == call.self.xdata
            y == call.self.ydata
            k == NearestIndex(x, call.threshold)
            rx == call.ret.xdata
            ry == call.ret.ydata
        IN  /\ Len(rx) = Len(x) - k
            /\ Len(ry) = Len(x) - k
            /\ \A m \in 1..(Len(x) - k) : rx[m] = x[k + m] /\ ry[m] = y[k + m]
            /\ \A m \in DOMAIN rx : rx[m] >= x[k + 1]

\* a cutoff that drops the low end of a curve and keeps the rest
C4_Witness ==
    /\ call # None /\ call.op = "cutoff"
    /\ NearestIndex(call.self.xdata, call.threshold) > 0
    /\ Len(call.ret.xdata) < Len(call.self.xdata)
    /\ Len(call.ret.xdata) >= 1

\* v is a value at x of the piecewise-linear interpolant of the curve (px, py),
\* continued by py's first value below px and by its last value above
InterpolantAt(v, x, px, py) ==
    \/ x < px[1] /\ v = py[1]
    \/ x > px[Len(px)] /\ v = py[Len(px)]
    \/ \E j \in DOMAIN px : px[j] = x /\ v = py[j]
    \/ \E j \in 1..(Len(px) - 1) :
          /\ px[j] < x /\ x < px[j + 1]
          /\ RMul(RSub(v, py[j]), RInt(px[j + 1] - px[j]))
                = RMul(RSub(py[j + 1], py[j]), RInt(x - px[j]))

\* C5: a - b is a curve with x = a.x and y[i] = a.y[i] - L(a.x[i]), L the
\* piecewise-linear interpolant of b clamped to b's edge values outside b's
\* domain; the result carries a's name and color, not b's.
C5_SubtractionInterpolates ==
    (call # None /\ call.op = "sub") =>
        LET s == call.self
            p == call.pattern
            r == call.ret
        IN  /\ r.xdata = s.xdata
            /\ Len(r.ydata) = Len(s.ydata)
            /\ \A m \in DOMAIN r.ydata :
                  InterpolantAt(RSub(s.ydata[m], r.ydata[m]), s.xdata[m],
                                p.xdata, p.ydata)
            /\ r.name = s.name /\ r.color = s.color

\* a - b with a sample of a strictly between two samples of b of different y,
\* b being another curve, of another name and color
C5_Witness ==
    /\ call # None /\ call.op = "sub"
    /\ call.pattern.name # call.self.name
    /\ call.pattern.color # call.self.color
    /\ \E m \in DOMAIN call.self.xdata, j \in 1..(Len(call.pattern.xdata) - 1) :
          /\ call.pattern.xdata[j] < call.self.xdata[m]
          /\ call.self.xdata[m] < call.pattern.xdata[j + 1]
          /\ call.pattern.ydata[j] # call.pattern.ydata[j + 1]
          /\ call.ret.ydata[m] # call.self.ydata[m]

-----------------------------------------------------------------------------
(* Claims on ownership and on the inputs of the operations *)

\* C6: a curve returned by subtraction or by cutoff shares no x or y storage
\* with its operand: an in-place write to the x or y of the result leaves the
\* x and y of both operands as they were, and an in-place write to the x or y
\* of an operand leaves the x and y of the result as they were.
C6_NoSharedStorage ==
    [][/\ ModifyResult =>
            /\ Shown(heap', a') = Shown(heap, a)
            /\ Shown(heap', b') = Shown(heap, b)
       /\ (ModifyOperand /\ res # None) =>
            Shown(heap', res') = Shown(heap, res)]_vars

\* C7: every core operation leaves its inputs unchanged: no step of
\* radialAverage, circ or fCenter changes the image or the center it was
\* given, and no step of subtraction, cutoff or of either background estimator
\* changes the x, y, name or color of an operand curve.
C7_InputsUnchanged ==
    [][/\ image' = image
       /\ center' = center
       /\ im' = im
       /\ a # None =>
            /\ a' # None /\ b' # None
            /\ Shown(heap', a') = Shown(heap, a)
            /\ Shown(heap', b') = Shown(heap, b)]_vars

\* a subtraction has returned a curve whose y differs from the operand's, and
\* the operand still shows the y it was called with
C7_Witness ==
    /\ call # None
    /\ call.op = "sub"
    /\ call.ret.ydata # call.self.ydata
    /\ Shown(heap, a) = call.self

-----------------------------------------------------------------------------
(* Claims on the center search *)

\* C8: the radius returned by fCenter is exactly the guessed radius rg,
\* whatever radius the optimizer reached; the two center coordinates are the
\* optimizer's, back in pixels.
C8_RadiusIsGuess ==
    fc.pc = "done" =>
        /\ fc.result[3] = RInt(fc.guess[3])
        /\ fc.result[1] = RMul(fc.best.x[1], RInt(fc.scalefactor))
        /\ fc.result[2] = RMul(fc.best.x[2], RInt(fc.scalefactor))

\* fCenter has returned and the optimizer's best point has another radius
C8_Witness ==
    /\ fc.pc = "done"
    /\ RMul(fc.best.x[3], RInt(fc.scalefactor)) # RInt(fc.guess[3])
    /\ fc.best.x # fc.start.x

\* C9: for every scale factor s given to fCenter the metric is evaluated with
\* that s: the starting point guess/s is measured on the ring at (xg, yg) of
\* radius rg, and the optimum p is reported as the point p*s at which the
\* metric measured the ring.
C9_MetricUsesSameScale ==
    fc.pc # "idle" =>
        /\ fc.start.ring = [k \in 1..3 |-> RInt(fc.guess[k])]
        /\ fc.pc = "done" =>
              /\ fc.result[1] = fc.best.ring[1]
              /\ fc.result[2] = fc.best.ring[2]

\* the pixels of the ring as the claim C10 selects them: the residual below
\* Tolerance in absolute value, the row index above RowCutoff
RingPixels(img, ring) ==
    LET d == Denominator(ring)
    IN  {q \in Near(ring, 2, img.shape) \X Near(ring, 1, img.shape) :
            /\ Abs(Residual(ring, d, q[1], q[2])) < Tolerance * d * d
            /\ q[1] > RowCutoff}

\* C10: circ returns the reciprocal of the mean intensity over exactly the
\* pixels whose residual is below 10 in absolute value and whose row index
\* exceeds 550; the pixels strictly inside the ring and the pixels of the rows
\* at or before the cutoff never contribute.
C10_RingPixelsOnly ==
    fc.pc # "idle" =>
        /\ Selected(im, fc.last.ring) = RingPixels(im, fc.last.ring)
        /\ fc.last.f = ReciprocalMean(im, RingPixels(im, fc.last.ring))

\* the rounded radii of all the pixels of the image
AllRadii(shape, ctr) ==
    {RadiusAt(shape, ctr, i, j) : i \in 0..(shape - 1), j \in 0..(shape - 1)}

\* the pixels of radius r whose row index is not less than center[0]
BinPixels(shape, ctr, r) ==
    {p \in (0..(shape - 1)) \X (0..(shape - 1)) :
        RadiusAt(shape, ctr, p[1], p[2]) = r /\ p[1] >= ctr[1]}

RECURSIVE SumPixels(_, _)
SumPixels(img, S) ==
    IF S = {} THEN 0
    ELSE LET p == CHOOSE q \in S : TRUE
         IN  img[p[1] + 1][p[2] + 1] + SumPixels(img, S \ {p})

\* C1: the curve returned by radialAverage has x strictly ascending (sorted,
\* no value twice) and as many y as x.
C1_RadialSortedUnique ==
    radial # None =>
        /\ \A k \in 1..(Len(radial.xdata) - 1) : radial.xdata[k] < radial.xdata[k + 1]
        /\ Len(radial.xdata) = Len(radial.ydata)

\* the image holds two pixels of the same rounded radius, and two of different
\* radii out of order in the flattened radius array
C1_Witness ==
    /\ radial # None
    /\ Len(radial.xdata) >= 2
    /\ Len(radial.xdata) < ImgSize * ImgSize
    /\ \E k \in 1..(ImgSize * ImgSize - 1) :
          FlatRadius(ImgSize, center, 0)[k] > FlatRadius(ImgSize, center, 0)[k + 1]

\* C2: x is the set of the rounded radii of all the pixels, skipped rows
\* included; y[k] = S / (1 + C) for the sum S and the number C of the pixels of
\* radius x[k] in the rows not before center[0]; a bin with no such pixel is 0.
C2_RadialBins ==
    radial # None =>
        LET shape == Len(image)
            x == radial.xdata
            y == radial.ydata
        IN  /\ {x[k] : k \in DOMAIN x} = AllRadii(shape, center)
            /\ Len(x) = Cardinality(AllRadii(shape, center))
            /\ \A k \in DOMAIN x :
                  LET P == BinPixels(shape, center, x[k])
                  IN  /\ y[k] = Rat(SumPixels(image, P), 1 + Cardinality(P))
                      /\ P = {} => y[k] = RInt(0)

\* a bin all of whose pixels are skipped, next to a bin with a positive sum
C2_Witness ==
    /\ radial # None
    /\ \E k \in DOMAIN radial.xdata :
          BinPixels(Len(image), center, radial.xdata[k]) = {}
    /\ \E k \in DOMAIN radial.xdata :
          /\ Cardinality(BinPixels(Len(image), center, radial.xdata[k])) >= 2
          /\ radial.ydata[k][1] > 0

-----------------------------------------------------------------------------
(* Claims on the error handling of circ *)

\* C11: when no pixel satisfies the residual and row-cutoff condition, circ
\* returns +infinity; it never returns a not-a-number value to the optimizer.
C11_NoPixelGivesInfinity ==
    fc.pc # "idle" =>
        /\ Selected(im, fc.last.ring) = {} => fc.last.f = [kind |-> "inf"]
        /\ fc.last.f.kind # "nan"

-----------------------------------------------------------------------------
(* Claims on the background estimators *)

\* C12: when the solver fails to converge in inelasticBG, the parameters used
\* are exactly the initial guess of the family, and the returned background is
\* the function of the chosen family evaluated with that guess at every x of
\* the original curve.
C12_FallbackIsGuess ==
    (/\ call # None
     /\ call.op = "global"
     /\ call.solver = "RuntimeError"
     /\ call.fit \in {"biexp", "bilor"}
     /\ Len(call.xpoints) >= FamilyParams) =>
        LET guess == FamilyGuesses(call.self.xdata, call.self.ydata)[call.fit]
        IN  /\ call.raised = "no"
            /\ call.parameters = guess
            /\ call.ret.xdata = call.self.xdata
            /\ call.ret.ydata =
                  [m \in DOMAIN call.self.xdata |->
                      <<call.fit, guess, call.self.xdata[m]>>]

\* a bilorentzian fit has not converged, on a curve of several samples
C12_Witness ==
    /\ call # None
    /\ call.op = "global"
    /\ call.solver = "RuntimeError"
    /\ call.fit = "bilor"
    /\ call.raised = "no"
    /\ Len(call.self.xdata) > 1

\* C13: fitting never aborts the pipeline: for every non-empty anchor list
\* (also of fewer anchors than the six fitted parameters), either family and
\* every outcome of the solver, inelasticBG returns a background curve and
\* raises nothing.
C13_FittingNeverAborts ==
    (/\ call # None
     /\ call.op = "global"
     /\ call.xpoints # << >>
     /\ call.fit \in {"biexp", "bilor"}) =>
        /\ call.raised = "no"
        /\ call.ret # None
        /\ res # None

\* what inelasticBG hands back for the outcome out of Global on the curve a
HandedBack(out) ==
    [xdata |-> Values(heap, a.xdata), ydata |-> out.background,
     name |-> "IBG " \o a.name, color |-> "b"]

\* C14: a background produced by the initial-guess fallback is flagged in what
\* inelasticBG hands back: the value returned after a fallback differs from
\* the value returned after a fit that converged, also when the fit converged
\* on the initial guess itself.
C14_FallbackIsFlagged ==
    (/\ call # None
     /\ call.op = "global"
     /\ call.solver = "RuntimeError"
     /\ call.raised = "no") =>
        LET x == Values(heap, a.xdata)
            y == Values(heap, a.ydata)
            guess == FamilyGuesses(x, y)[call.fit]
            converged == Global(x, y, call.xpoints, call.fit,
                                [raised |-> "no", params |-> guess])
        IN  call.ret # HandedBack(converged)

\* the 0-based index of the sample of x nearest to the feature
WindowCentre(x, feature) ==
    CHOOSE k \in 0..(Len(x) - 1) :
        /\ \A m \in 0..(Len(x) - 1) : Abs(x[k + 1] - feature) <= Abs(x[m + 1] - feature)
        /\ \A m \in 0..(k - 1) : Abs(x[m + 1] - feature) > Abs(x[k + 1] - feature)

\* C15: in the stitched strategy an anchor whose window
\* [ind - chunk_size, ind + chunk_size] extends before index 0 or past the
\* last index of the curve is rejected with an error: no background is
\* returned for a window of wrapped-around or clamped samples.
C15_WindowInRange ==
    (/\ call # None
     /\ call.op = "stitched"
     /\ \E k \in DOMAIN call.xfeatures :
           LET ind == WindowCentre(call.self.xdata, call.xfeatures[k])
           IN  \/ ind - call.chunk_size < 0
               \/ ind + call.chunk_size > Len(call.self.xdata) - 1) =>
        /\ call.raised # "no"
        /\ res = None

\* the samples of arr in the window of half-width chunk_size centred on the
\* 0-based index ind
Window(arr, ind, chunk_size) ==
    [m \in 1..(2 * chunk_size + 1) |-> arr[ind - chunk_size + m]]

\* C16: for each feature window of the stitched strategy the pseudo-Voigt
\* model is fitted to the y of the window with the minimum of the window
\* subtracted, and the recorded background level is the offset of that fit
\* plus the minimum of the window before the normalization.
C16_FitsNormalizedWindow ==
    (/\ call # None
     /\ call.op = "stitched"
     /\ call.raised = "no"
     /\ Len(call.xfeatures) = 1) =>
        LET ind == WindowCentre(call.self.xdata, call.xfeatures[1])
            inside == /\ ind - call.chunk_size >= 0
                      /\ ind + call.chunk_size <= Len(call.self.xdata) - 1
            w == Window(call.self.ydata, ind, call.chunk_size)
            offset == call.profiles[1][1][2][VoigtParams]
        IN  inside =>
              /\ call.fitted[1] = [m \in DOMAIN w |-> RSub(w[m], RMin(w))]
              /\ call.ret.ydata[ind + 1] = RAdd(offset, RMin(w))

-----------------------------------------------------------------------------
(* Claims on the well-formedness of the curves *)

\* C17: a malformed curve is rejected: a subtraction whose pattern has an x
\* that is not monotonic ends in an error and returns no curve.
C17_MalformedRejected ==
    (/\ call # None
     /\ call.op = "sub"
     /\ ~Monotonic(call.pattern.xdata)) =>
        res = None

\* the arrays of the curve lie within their buffers and are equally long
EquallyLong(h, curve) ==
    /\ curve.xdata.off + curve.xdata.len <= Len(h[curve.xdata.buf])
    /\ curve.ydata.off + curve.ydata.len <= Len(h[curve.ydata.buf])
    /\ Len(Shown(h, curve).xdata) = Len(Shown(h, curve).ydata)

-----------------------------------------------------------------------------
(* Claims on the geometry of radialAverage *)

\* the distance from the integer index coordinates (i, j) to the center,
\* rounded, with the pairing of line 266: j with center[0], i with center[1]
IndexRadius(ctr, i, j) ==
    RoundSqrt((j - ctr[1]) * (j - ctr[1]) + (i - ctr[2]) * (i - ctr[2]), 1)

\* C19: the radius bin of the pixel at index (i, j) is the distance from its
\* integer index coordinates to the center, rounded to the nearest integer:
\* the bins returned are the rounded index distances of the pixels.
C19_IntegerCoordinates ==
    radial # None =>
        {radial.xdata[k] : k \in DOMAIN radial.xdata} =
            {IndexRadius(center, i, j) :
                i \in 0..(Len(image) - 1), j \in 0..(Len(image) - 1)}

\* the average of the bin r over the pixels P of the image, the count started
\* at 1 as line 279 does
BinAverage(img, P) == Rat(SumPixels(img, P), 1 + Cardinality(P))

\* the pixels of the image
Indexes(shape) == (0..(shape - 1)) \X (0..(shape - 1))

\* C20: the half-image exclusion is consistent with the distance: the axis
\* whose index is compared with center[0] in the skip test is the axis whose
\* coordinate is paired with center[0] in the distance.  Either the distance
\* is the one computed and the pixels skipped are those of second index below
\* center[0], or the pixels skipped are those skipped and the distance pairs
\* the first index with center[0].
C20_SkipAxisIsDistanceAxis ==
    radial # None =>
        LET shape == Len(image)
            x == radial.xdata
            y == radial.ydata
        IN  \/ \A k \in DOMAIN x :
                  y[k] = BinAverage(image,
                            {p \in Indexes(shape) :
                                /\ RadiusAt(shape, center, p[1], p[2]) = x[k]
                                /\ p[2] >= center[1]})
            \/ \A k \in DOMAIN x :
                  y[k] = BinAverage(image,
                            {p \in Indexes(shape) :
                                /\ RadiusAt(shape, center, p[2], p[1]) = x[k]
                                /\ p[1] >= center[1]})

-----------------------------------------------------------------------------
(* Claims on the order of the features and on the selector of the family *)

\* the background level of the k-th window of the call: the offset of its fit
\* plus the minimum of the y of the window
LevelOf(k) ==
    LET ind == WindowCentre(call.self.xdata, call.xfeatures[k])
    IN  RAdd(call.profiles[k][1][2][VoigtParams],
             RMin(Window(call.self.ydata, ind, call.chunk_size)))

\* C21: the stitched background does not depend on the order in which the
\* features are listed: with non-overlapping windows the background returned
\* is the one returned for the list reversed (each window keeping its fit),
\* and at every sample inside a window it is the level of that window.
C21_OrderIndependent ==
    (/\ call # None
     /\ call.op = "stitched"
     /\ call.raised = "no"
     /\ Len(call.xfeatures) = 2) =>
        LET x == call.self.xdata
            y == call.self.ydata
            fit(k) == [raised |-> "no", params |-> call.profiles[k][1][2]]
            reversed == Stitched(x, y, <<call.xfeatures[2], call.xfeatures[1]>>,
                                 call.chunk_size, <<fit(2), fit(1)>>)
        IN  /\ reversed.raised = "no"
            /\ reversed.background = call.ret.ydata
            /\ \A k \in 1..2 :
                  LET ind == WindowCentre(x, call.xfeatures[k])
                  IN  \A m \in (ind - call.chunk_size)..(ind + call.chunk_size) :
                          call.ret.ydata[m + 1] = LevelOf(k)

\* C22: inelasticBG pairs a function with the guess of the same family: with
\* the selector 'bilor' both are bi-Lorentzian, and with any other selector
\* the call uses the bi-exponential function with the bi-exponential guess and
\* returns a curve.
C22_SelectorFallsBack ==
    (/\ call # None
     /\ call.op = "global"
     /\ Len(call.xpoints) >= FamilyParams) =>
        LET family == IF call.fit = "bilor" THEN "bilor" ELSE "biexp"
            guess == FamilyGuesses(call.self.xdata, call.self.ydata)[family]
        IN  /\ call.raised = "no"
            /\ res # None
            /\ call.solver = "RuntimeError" => call.parameters = guess
            /\ call.ret.ydata =
                  [m \in DOMAIN call.self.xdata |->
                      <<family, call.parameters, call.self.xdata[m]>>]

-----------------------------------------------------------------------------
(* Claims on the UEDpowder window *)

\* the states named in the docstring of UEDpowder
DocumentedStates ==
    {"initial", "data loaded", "center guessed", "radius guessed", "center found"}

\* C23: in every reachable state of the window the state attribute is one of
\* the documented values 'initial', 'data loaded', 'center guessed',
\* 'radius guessed', 'center found'.
C23_StateDocumented == ui # None => ui.state \in DocumentedStates

\* C24: Reject in state 'center found' returns the window to 'data loaded' and
\* clears the center guess and the radius guess that the click handler writes
\* and that Execute reads.
C24_RejectForgetsGuesses ==
    (ui # None /\ ui.log = <<"reject">>) =>
        /\ ui.state = "data loaded"
        /\ ui.guess_center = None
        /\ ui.guess_radius = None

\* the handlers that precede a run of fCenter since the image load or Reject
GuessedThenRun == {<<first, "center", "radius", "fCenter">> : first \in {"load", "reject"}}

\* C25: fCenter runs only on Execute in state 'radius guessed'; every run is
\* preceded, since the most recent image load or Reject, by a click that set
\* the center guess and then a click that set the radius guess; 'center
\* found' is reached only through that sequence; Accept and Reject have no
\* effect in any other state.
C25_CenterSearchGuarded ==
    /\ [](ui # None =>
            /\ (ui.log # << >> /\ ui.log[Len(ui.log)] = "fCenter") => ui.log \in GuessedThenRun
            /\ ui.state = "center found" => ui.log \in GuessedThenRun
            /\ ui.state # "center found" => (acceptState(ui) = ui /\ rejectState(ui) = ui)
            /\ \A best \in Optima(<<0, 0, 0>>) :
                  ui.state # "radius guessed" => executeStateOperation(ui, best) = ui)
    /\ [][ui # None =>
            /\ ui'.runs # ui.runs =>
                  /\ ui.state = "radius guessed"
                  /\ ui'.runs = ui.runs + 1
                  /\ ui'.log = Append(ui.log, "fCenter")
            /\ (ui'.state = "center found" /\ ui.state # "center found") =>
                  ui'.runs = ui.runs + 1]_vars

C25_Witness ==
    /\ ui # None
    /\ ui.state = "center found"
    /\ ui.log = <<"reject", "center", "radius", "fCenter">>
    /\ ui.runs = 2

-----------------------------------------------------------------------------
(* Claims on the IrisController *)

\* the error_message_signal emissions of a slot invocation that carry the
\* traceback of the method
ErrorMessages(last, method) ==
    {k \in 1..Len(last.out) :
        last.out[k] = [signal |-> "error_message", value |-> [traceback |-> method]]}

\* C26: every method of IrisController is error-aware: when its body raises,
\* the exception does not propagate to the caller, error_message_signal is
\* emitted exactly once with the traceback, and the call returns.
C26_ErrorAware ==
    (ctl # None /\ ctl.last # None) =>
        /\ ~ctl.last.propagated
        /\ \A k \in 1..Len(ctl.last.calls) :
              Cardinality(ErrorMessages(ctl.last, ctl.last.calls[k].method))
                  = IF ctl.last.calls[k].raised THEN 1 ELSE 0

C26_Witness ==
    /\ ctl # None
    /\ ctl.last # None
    /\ ctl.last.method = "set_time_zero_shift"
    /\ ctl.last.calls = <<[method |-> "set_time_zero_shift", raised |-> TRUE]>>
    /\ ctl.dataset = None

\* C27: every started WorkThread emits in_progress_signal, then done_signal,
\* then results_signal, each once: when the function evaluation is over the
\* three signals have been emitted in that order.
C27_WorkerSignalsInOrder ==
    (ctl # None /\ ctl.worker # None /\ ctl.worker.pc = "over") =>
        ctl.worker.emitted = <<"in_progress", "done", "results">>

\* C28: while powder_time_series was never invoked, a call of
\* set_time_zero_shift emits no powder_time_series_signal.
C28_NoSeriesBeforeComputed ==
    (ctl # None /\ ctl.last # None /\ ctl.last.method = "set_time_zero_shift"
        /\ ~ctl.series) =>
        \A k \in 1..Len(ctl.last.out) : ctl.last.out[k].signal # "powder_time_series"

\* C29: every averaged_data_signal emission that carries data carries data
\* computed with the current value of the relative-display flag.
C29_AveragedDataIsCurrent ==
    (ctl # None /\ ctl.last # None) =>
        \A k \in 1..Len(ctl.last.out) :
            (ctl.last.out[k].signal = "averaged_data" /\ ctl.last.out[k].value # None) =>
                ctl.last.out[k].value.relative = ctl.relative_averaged

\* the result of the worker has not been delivered to load_dataset yet
Undelivered(c) ==
    \/ Running(c.worker)
    \/ \E k \in 1..Len(c.queue) : c.queue[k].signal = "results"

\* C30: from the start of a promote_to_powder or recompute_angular_average
\* worker until its result is delivered to load_dataset, the dataset of the
\* controller is None.
C30_NoDatasetWhileWorking ==
    (ctl # None /\ ctl.worker # None
        /\ ctl.worker.function \in {"promote_to_powder", "recompute_angular_average"}
        /\ Undelivered(ctl)) =>
        ctl.dataset = None

====
